---- MODULE Spec2Model ----
(***************************************************************************)
(* Model of sprig (src/src/sprig/cli.py): the workspace lifecycle manager. *)
(*                                                                         *)
(* The state is the file tree below the repository root, the git metadata  *)
(* the commands read and write (branches, registered worktrees) and the    *)
(* outcome of the last command.  One action per CLI command, plus one      *)
(* action for a user writing a file by hand.                               *)
(*                                                                         *)
(* Paths are sequences of components relative to the repository root, so   *)
(* <<>> is the root itself.  File contents are sequences of tokens.        *)
(***************************************************************************)
EXTENDS Naturals, Sequences, FiniteSets, TLC

VARIABLES dirs, files, branches, worktrees, last, made, ignore0

vars == <<dirs, files, branches, worktrees, last, made, ignore0>>

(***************************************************************************)
(* Bounds of the model.                                                    *)
(***************************************************************************)
MaxIgnoreLen == 3

(***************************************************************************)
(* Program constants.                                                      *)
(***************************************************************************)
WORKSPACES_DIR == ".workspaces"
DEFAULT_WORKSPACE_BRANCH_PREFIX == "workspace"

(***************************************************************************)
(* Text of .gitignore.  A content is a sequence of tokens: "E" stands for  *)
(* the text `.workspaces/`, "x" for any other printable text, "SP" for a   *)
(* blank, "LF" and "CR" for the two line-break characters.                 *)
(***************************************************************************)
Entry == "E"
IgnoreAlphabet == {"E", "x", "SP", "LF", "CR"}
LineSep == <<"LF">>

RECURSIVE Universal(_)
Universal(s) ==
    IF s = <<>> THEN <<>>
    ELSE IF Head(s) = "CR"
         THEN <<"LF">> \o Universal(IF Len(s) >= 2 /\ s[2] = "LF"
                                    THEN SubSeq(s, 3, Len(s))
                                    ELSE Tail(s))
         ELSE <<Head(s)>> \o Universal(Tail(s))

ReadText(bytes) == Universal(bytes)

RECURSIVE WriteText(_)
WriteText(s) ==
    IF s = <<>> THEN <<>>
    ELSE (IF Head(s) = "LF" THEN LineSep ELSE <<Head(s)>>) \o WriteText(Tail(s))

RECURSIVE SplitFrom(_, _)
SplitFrom(s, cur) ==
    IF s = <<>> THEN (IF cur = <<>> THEN <<>> ELSE <<cur>>)
    ELSE IF Head(s) = "LF"
         THEN <<cur>> \o SplitFrom(Tail(s), <<>>)
         ELSE SplitFrom(Tail(s), Append(cur, Head(s)))

SplitLines(s) == SplitFrom(Universal(s), <<>>)

RECURSIVE LStrip(_)
LStrip(s) ==
    IF s # <<>> /\ Head(s) \in {"SP", "LF", "CR"} THEN LStrip(Tail(s)) ELSE s

RECURSIVE RStrip(_)
RStrip(s) ==
    IF s # <<>> /\ s[Len(s)] \in {"SP", "LF", "CR"}
    THEN RStrip(SubSeq(s, 1, Len(s) - 1)) ELSE s

Strip(s) == RStrip(LStrip(s))

EndsWithNewline(s) == s # <<>> /\ s[Len(s)] = "LF"

(***************************************************************************)
(* Paths.                                                                  *)
(***************************************************************************)
Root == <<>>

IsPrefix(p, q) == Len(p) <= Len(q) /\ SubSeq(q, 1, Len(p)) = p

Parent(p) == SubSeq(p, 1, Len(p) - 1)

\* pathlib drops "." components when paths are joined
RECURSIVE Collapse(_)
Collapse(p) ==
    IF p = <<>> THEN <<>>
    ELSE IF Head(p) = "." THEN Collapse(Tail(p))
         ELSE <<Head(p)>> \o Collapse(Tail(p))

\* the directory a path names once the OS has followed its ".." components
RECURSIVE CanonFrom(_, _)
CanonFrom(stack, rest) ==
    IF rest = <<>> THEN stack
    ELSE IF Head(rest) = ".."
         THEN CanonFrom(IF stack = <<>> THEN <<>> ELSE Parent(stack), Tail(rest))
         ELSE CanonFrom(Append(stack, Head(rest)), Tail(rest))

Canon(p) == CanonFrom(<<>>, p)

HasDotDot(p) == \E i \in 1..Len(p) : p[i] = ".."

IsDir(d, p) == p \in d
IsFile(f, p) == p \in DOMAIN f

\* Path.exists(): every step of the walk must land on an existing entry
PathExists(d, f, p) ==
    /\ \A i \in 1..(Len(p) - 1) : IsDir(d, Canon(SubSeq(p, 1, i)))
    /\ IsDir(d, Canon(p)) \/ IsFile(f, Canon(p))

Restrict(f, S) == [p \in S |-> f[p]]

Put(f, p, c) == [q \in DOMAIN f \cup {p} |-> IF q = p THEN c ELSE f[q]]

Under(p, q) == IsPrefix(p, q)

(***************************************************************************)
(* The file tree and the git metadata, as one record that the steps of a   *)
(* command thread through: dirs, files, branches, worktrees.               *)
(***************************************************************************)
State(d, f, b, w) == [dirs |-> d, files |-> f, branches |-> b, worktrees |-> w]

Cur == State(dirs, files, branches, worktrees)

Ok(s) == [s |-> s, err |-> "", crash |-> FALSE]
Fail(s, e) == [s |-> s, err |-> e, crash |-> FALSE]
Crash(s, e) == [s |-> s, err |-> e, crash |-> TRUE]

\* shutil.rmtree(p): empties the tree below the directory p names, then
\* removes the directory through the path it was given; with a ".." in that
\* path the last step finds the path gone and raises.
RmTree(s, p) ==
    LET t == Canon(p)
        gone(q) == Under(t, q) /\ (q # t \/ ~HasDotDot(p))
    IN  [s EXCEPT !.dirs = {q \in s.dirs : ~gone(q)},
                  !.files = Restrict(s.files, {q \in DOMAIN s.files : ~gone(q)})]

RmTreeRaises(p) == HasDotDot(p)

\* Path.mkdir(parents=True, exist_ok=True)
MkdirP(s, p) ==
    [s EXCEPT !.dirs = s.dirs \cup {Canon(SubSeq(p, 1, i)) : i \in 0..Len(p)}]

(***************************************************************************)
(* Context resolver.                                                       *)
(***************************************************************************)
NoRoot == <<"<none>">>
NoWorkspace == "<none>"

find_repo_root(s, start) ==
    LET marked == {i \in 0..Len(start) :
                     PathExists(s.dirs, s.files, Append(SubSeq(start, 1, i), ".git"))}
    IN  IF marked = {} THEN NoRoot
        ELSE SubSeq(start, 1, CHOOSE i \in marked : \A j \in marked : j <= i)

detect_workspace(cwd, root) ==
    IF ~IsPrefix(root, cwd) THEN NoWorkspace
    ELSE LET parts == SubSeq(cwd, Len(root) + 1, Len(cwd))
         IN  IF Len(parts) >= 2 /\ parts[1] = WORKSPACES_DIR
             THEN parts[2] ELSE NoWorkspace

ensure_root_command(s, cwd) ==
    LET root == find_repo_root(s, cwd)
    IN  IF root = NoRoot THEN [err |-> "NotARepository", root |-> NoRoot]
        ELSE IF detect_workspace(cwd, root) # NoWorkspace
             THEN [err |-> "InsideWorkspace", root |-> root]
        ELSE IF cwd # root THEN [err |-> "NotAtRoot", root |-> root]
        ELSE [err |-> "", root |-> root]

ensure_workspace_command(s, cwd) ==
    LET root == find_repo_root(s, cwd)
    IN  IF root = NoRoot
        THEN [err |-> "NotARepository", root |-> NoRoot, workspace |-> NoWorkspace]
        ELSE LET workspace == detect_workspace(cwd, root)
             IN  IF workspace = NoWorkspace
                 THEN [err |-> "NotInWorkspace", root |-> root, workspace |-> NoWorkspace]
                 ELSE [err |-> "", root |-> root, workspace |-> workspace]

WrongContextErrors == {"InsideWorkspace", "NotAtRoot", "NotInWorkspace"}

(***************************************************************************)
(* Scaffolding.                                                            *)
(***************************************************************************)
ConfigText == <<"CFG">>
ReadmeText == <<"RDM">>
TrackedText == <<"TRK">>
UserText == <<"USR">>
GitdirText == <<"GITDIR">>

ensure_gitignore(s, root) ==
    LET gitignore == Append(root, ".gitignore")
        entry == <<Entry>>
    IN  IF IsFile(s.files, gitignore)
        THEN LET content == ReadText(s.files[gitignore])
                 lines == SplitLines(content)
             IN  IF \E i \in 1..Len(lines) : Strip(lines[i]) = entry
                 THEN s
                 ELSE [s EXCEPT !.files = Put(s.files, gitignore,
                          WriteText(content
                                    \o (IF ~EndsWithNewline(content) THEN <<"LF">> ELSE <<>>)
                                    \o entry \o <<"LF">>))]
        ELSE [s EXCEPT !.files = Put(s.files, gitignore, WriteText(entry \o <<"LF">>))]

scaffold_config(s, workspace_dir) ==
    LET config == Append(Canon(workspace_dir), "config.yaml")
        readme == Append(Canon(workspace_dir), "README.md")
    IN  IF IsFile(s.files, config) THEN s
        ELSE LET s1 == [s EXCEPT !.files = Put(s.files, config, ConfigText)]
             IN  IF ~IsFile(s1.files, readme)
                 THEN [s1 EXCEPT !.files = Put(s1.files, readme, ReadmeText)]
                 ELSE s1

(***************************************************************************)
(* Subprocesses.  An environment value says how the external tools behave  *)
(* during one command: "ok", "missing" (the executable is not on PATH), or *)
(* the name of the one step that exits non-zero for a reason outside the   *)
(* model (no network, a lock, a full disk), if the command reaches it.     *)
(* Besides that, each git command fails when git itself refuses.           *)
(***************************************************************************)
GitEnvs == {"ok", "missing", "fetch", "remove", "branchD", "add"}
SetupModes == {"skip", "ok", "fail", "missing"}
TrackedSets == SUBSET {"config.yaml", "README.md"}

BranchName(name) == <<DEFAULT_WORKSPACE_BRANCH_PREFIX>> \o name

CheckedOut(s, b) == \E p \in DOMAIN s.worktrees : s.worktrees[p] = b

RefConflict(s, b) ==
    \E c \in s.branches : c # b /\ (IsPrefix(c, b) \/ IsPrefix(b, c))

\* run_command(["git", "fetch", "origin", branch]) wrapped by git_fetch
git_fetch(s, gitEnv) ==
    IF gitEnv \in {"missing", "fetch"} THEN Fail(s, "GitPullFailed") ELSE Ok(s)

\* run_command(["git", "worktree", "remove", "--force", p])
WorktreeRemove(s, p, gitEnv) ==
    LET t == Canon(p)
    IN  IF gitEnv = "remove" THEN Fail(s, "CommandFailed")
        ELSE IF t \in DOMAIN s.worktrees /\ IsFile(s.files, Append(t, ".git"))
        THEN LET s1 == RmTree(s, t)
             IN  Ok([s1 EXCEPT !.worktrees =
                        Restrict(s.worktrees, DOMAIN s.worktrees \ {t})])
        ELSE Fail(s, "CommandFailed")

\* git rev-parse --verify branch
branch_exists(s, b) == b \in s.branches

\* run_command(["git", "branch", "-D", b])
BranchDelete(s, b, gitEnv) ==
    IF gitEnv = "branchD" \/ CheckedOut(s, b) THEN Fail(s, "CommandFailed")
    ELSE Ok([s EXCEPT !.branches = s.branches \ {b}])

\* run_command(["git", "worktree", "add", "-B", b, p, base_ref]): the checkout
\* of the fetched branch, its .git file, the registration and the branch
Checkout(s1, t, b, tracked) ==
    [s1 EXCEPT
       !.files = [q \in DOMAIN s1.files \cup {Append(t, ".git")}
                            \cup {Append(t, f) : f \in tracked} |->
                    IF q = Append(t, ".git") THEN GitdirText
                    ELSE IF q \in {Append(t, f) : f \in tracked} THEN TrackedText
                    ELSE s1.files[q]],
       !.branches = s1.branches \cup {b},
       !.worktrees = Put(s1.worktrees, t, b)]

WorktreeAdd(s, p, b, gitEnv, tracked) ==
    IF \/ gitEnv = "add"
       \/ Canon(p) \in DOMAIN s.worktrees
       \/ CheckedOut(s, b)
       \/ RefConflict(s, b)
       \/ PathExists(s.dirs, s.files, p)
    THEN Fail(s, "CommandFailed")
    ELSE Ok(Checkout(MkdirP(s, p), Canon(p), b, tracked))

\* prepare_directory_only without its `if not force` guard
prepare_directory_only_unguarded(s, workspace_dir, force) ==
    IF PathExists(s.dirs, s.files, workspace_dir)
    THEN IF RmTreeRaises(workspace_dir) THEN Crash(RmTree(s, workspace_dir), "OSError")
         ELSE Ok(MkdirP(RmTree(s, workspace_dir), workspace_dir))
    ELSE Ok(MkdirP(s, workspace_dir))

prepare_directory_only(s, workspace_dir, force) ==
    IF PathExists(s.dirs, s.files, workspace_dir)
    THEN IF ~force THEN Fail(s, "WorkspaceExists")
         ELSE IF RmTreeRaises(workspace_dir) THEN Crash(RmTree(s, workspace_dir), "OSError")
         ELSE Ok(MkdirP(RmTree(s, workspace_dir), workspace_dir))
    ELSE Ok(MkdirP(s, workspace_dir))

\* create_git_worktree, after `git branch -D`
AfterBranchDelete(r2, workspace_dir, workspace_branch, gitEnv, tracked) ==
    IF r2.err # "" THEN r2
    ELSE WorktreeAdd(r2.s, workspace_dir, workspace_branch, gitEnv, tracked)

\* create_git_worktree, from `if branch_exists(...)` on
BranchStep(s1, workspace_dir, workspace_branch, force, gitEnv, tracked) ==
    IF branch_exists(s1, workspace_branch)
    THEN IF ~force THEN Fail(s1, "BranchExists")
         ELSE AfterBranchDelete(BranchDelete(s1, workspace_branch, gitEnv),
                                workspace_dir, workspace_branch, gitEnv, tracked)
    ELSE WorktreeAdd(s1, workspace_dir, workspace_branch, gitEnv, tracked)

\* create_git_worktree, after `git worktree remove --force`
AfterRemove(r1, workspace_dir, workspace_branch, force, gitEnv, tracked) ==
    IF r1.err # "" THEN r1
    ELSE BranchStep(IF PathExists(r1.s.dirs, r1.s.files, workspace_dir)
                    THEN RmTree(r1.s, workspace_dir) ELSE r1.s,
                    workspace_dir, workspace_branch, force, gitEnv, tracked)

create_git_worktree(s, workspace_dir, workspace_branch, force, gitEnv, tracked) ==
    IF PathExists(s.dirs, s.files, workspace_dir)
    THEN IF ~force THEN Fail(s, "WorkspaceExists")
         ELSE AfterRemove(WorktreeRemove(s, workspace_dir, gitEnv),
                          workspace_dir, workspace_branch, force, gitEnv, tracked)
    ELSE BranchStep(s, workspace_dir, workspace_branch, force, gitEnv, tracked)

run_make_setup(s, root, setup) ==
    IF ~IsFile(s.files, Append(root, "Makefile")) THEN Ok(s)
    ELSE IF setup \in {"fail", "missing"} THEN Fail(s, "MakeSetupFailed")
    ELSE Ok(s)

\* the scaffold files of a workspace directory, as a function name -> text
ScaffoldOf(s, workspace_dir) ==
    [f \in {g \in {"config.yaml", "README.md"} :
               IsFile(s.files, Append(Canon(workspace_dir), g))}
       |-> s.files[Append(Canon(workspace_dir), f)]]

NoScaffold == [f \in {} |-> <<>>]

\* the outcome of _create_workspace: an outcome and the scaffold files found
\* right before scaffold_config ran
WithPre(r, pre) == [s |-> r.s, err |-> r.err, crash |-> r.crash, pre |-> pre]

\* workspace_dir = root / WORKSPACES_DIR / name
WorkspaceDir(root, name) == root \o <<WORKSPACES_DIR>> \o Collapse(name)

\* _create_workspace: skip_git selects prepare_directory_only
Materialize(s, root, name, force, skipGit, gitEnv, tracked) ==
    IF skipGit THEN prepare_directory_only(s, WorkspaceDir(root, name), force)
    ELSE IF git_fetch(s, gitEnv).err # "" THEN git_fetch(s, gitEnv)
    ELSE create_git_worktree(s, WorkspaceDir(root, name), BranchName(name),
                             force, gitEnv, tracked)

\* _create_workspace, from scaffold_config on
Finish(r1, root, name, setup) ==
    IF r1.err # "" \/ r1.crash THEN WithPre(r1, NoScaffold)
    ELSE WithPre(IF setup # "skip"
                 THEN run_make_setup(
                          ensure_gitignore(scaffold_config(r1.s, WorkspaceDir(root, name)), root),
                          root, setup)
                 ELSE Ok(ensure_gitignore(scaffold_config(r1.s, WorkspaceDir(root, name)), root)),
                 ScaffoldOf(r1.s, WorkspaceDir(root, name)))

\* _create_workspace, once ensure_root_command returned root
create_workspace(s, root, name, force, skipGit, gitEnv, tracked, setup) ==
    Finish(Materialize(s, root, name, force, skipGit, gitEnv, tracked), root, name, setup)

(***************************************************************************)
(* Inputs of the commands.                                                 *)
(***************************************************************************)
Names == {<<"a">>, <<"b">>, <<"a", "b">>, <<"..">>}
SimpleNames == {<<"a">>, <<"b">>}
\* the names given to `new` in directory-only mode
CreateNames == {<<"a">>, <<"b">>, <<"a", "b">>}
\* the name used where the whole command set runs
MainNames == {<<"a">>}

\* directories a command can be started in
Cwds == {d \in dirs : \A i \in 1..Len(d) : d[i] # ".git"}

\* sorted(): names are compared by code point
CodePoint(c) == CASE c = "a" -> 97 [] c = "b" -> 98 [] OTHER -> 0

RECURSIVE Sorted(_)
Sorted(S) ==
    IF S = {} THEN <<>>
    ELSE LET m == CHOOSE x \in S : \A y \in S : CodePoint(x) <= CodePoint(y)
         IN  <<m>> \o Sorted(S \ {m})

\* p.name for p in workspaces_root.iterdir() if p.is_dir()
ChildDirs(s, p) == {d[Len(d)] : d \in {q \in s.dirs : Len(q) = Len(p) + 1 /\ IsPrefix(p, q)}}

\* the lines `list` prints, each line a name
NoWorkspacesYet == <<<<"No workspaces yet.">>>>

\* the outcome of a command; the arguments a command never read (it stopped
\* at the context check) are left blank
Blank == [cmd |-> "none", cwd |-> Root, name |-> <<>>, force |-> FALSE,
          skipGit |-> FALSE, git |-> "ok", answer |-> "",
          exit |-> 0, err |-> "", crash |-> FALSE, out |-> <<>>,
          root |-> NoRoot, ws |-> NoWorkspace, pre |-> NoScaffold, gone |-> {}]

Rejected(cmd, cwd, err) ==
    [Blank EXCEPT !.cmd = cmd, !.cwd = cwd, !.exit = 1, !.err = err]

\* made: the workspaces that a `new` which exited 0 created and whose
\* directory has not been removed since, each with the root and the mode
\* ("dir" or "git") of that `new`
Remaining(s, created) ==
    {m \in made : m.dir \in s.dirs /\ \A c \in created : c.dir # m.dir}

Commit(s, l, created) ==
    /\ dirs' = s.dirs
    /\ files' = s.files
    /\ branches' = s.branches
    /\ worktrees' = s.worktrees
    /\ last' = l
    /\ made' = Remaining(s, created) \cup created
    /\ UNCHANGED ignore0

\* handle_cli_errors: a SprigError becomes `Error: ...` and exit code 1; any
\* other exception leaves the command uncaught
ExitOf(r) == IF r.err # "" \/ r.crash THEN 1 ELSE 0

RootAccepts(cwd) == ensure_root_command(Cur, cwd).err = ""
WorkspaceAccepts(cwd) == ensure_workspace_command(Cur, cwd).err = ""

\* where the context check stops a command its other arguments are not
\* read: one choice of them stands for all
Args(accepted, S) == IF accepted THEN S ELSE {CHOOSE x \in S : TRUE}

(***************************************************************************)
(* Commands.                                                               *)
(***************************************************************************)
\* new, once _create_workspace returned r
NewOutcome(r, root, cwd, name, force, skipGit, gitEnv) ==
    Commit(r.s, [Blank EXCEPT !.cmd = "new", !.cwd = cwd, !.name = name,
                              !.force = force, !.skipGit = skipGit, !.git = gitEnv,
                              !.exit = ExitOf(r), !.err = r.err,
                              !.crash = r.crash, !.pre = r.pre],
           IF ExitOf(r) = 0
           THEN {[dir |-> Canon(WorkspaceDir(root, name)), name |-> name, root |-> root,
                  mode |-> IF skipGit THEN "dir" ELSE "git"]}
           ELSE {})

\* new, once ensure_root_command returned rc
NewAt(rc, cwd, name, force, skipGit, gitEnv, tracked, setup) ==
    IF rc.err # "" THEN Commit(Cur, Rejected("new", cwd, rc.err), {})
    ELSE NewOutcome(create_workspace(Cur, rc.root, name, force, skipGit, gitEnv, tracked, setup),
                    rc.root, cwd, name, force, skipGit, gitEnv)

DoNew(cwd, name, force, skipGit, gitEnv, tracked, setup) ==
    NewAt(ensure_root_command(Cur, cwd), cwd, name, force, skipGit, gitEnv, tracked, setup)

NewDirOnly(cwd, name, force, setup) ==
    DoNew(cwd, name, force, TRUE, "ok", {}, setup)

NewGit(cwd, name, force, gitEnv, tracked, setup) ==
    DoNew(cwd, name, force, FALSE, gitEnv, tracked, setup)

InitAt(rc, cwd) ==
    IF rc.err # "" THEN Commit(Cur, Rejected("init", cwd, rc.err), {})
    ELSE Commit(ensure_gitignore(Cur, rc.root), [Blank EXCEPT !.cmd = "init", !.cwd = cwd], {})

InitCmd(cwd) == InitAt(ensure_root_command(Cur, cwd), cwd)

\* list: the lines printed for the sorted names
ListLines(s, workspaces_root, names) ==
    IF ~PathExists(s.dirs, s.files, workspaces_root) THEN NoWorkspacesYet
    ELSE IF names = <<>> THEN NoWorkspacesYet
    ELSE [i \in 1..Len(names) |-> <<names[i]>>]

ListAt(rc, cwd) ==
    IF rc.err # "" THEN Commit(Cur, Rejected("list", cwd, rc.err), {})
    ELSE Commit(Cur, [Blank EXCEPT !.cmd = "list", !.cwd = cwd,
                        !.out = ListLines(Cur, Append(rc.root, WORKSPACES_DIR),
                                  Sorted(ChildDirs(Cur, Append(rc.root, WORKSPACES_DIR))))], {})

ListCmd(cwd) == ListAt(ensure_root_command(Cur, cwd), cwd)

Answers == {"--yes", "confirm", "decline"}

clean(s, root, name, answer) ==
    IF ~PathExists(s.dirs, s.files, WorkspaceDir(root, name)) THEN Fail(s, "NotFound")
    ELSE IF answer = "decline" THEN Ok(s)
    ELSE IF RmTreeRaises(WorkspaceDir(root, name))
    THEN Crash(RmTree(s, WorkspaceDir(root, name)), "OSError")
    ELSE Ok(RmTree(s, WorkspaceDir(root, name)))

\* clean, once its body returned r
CleanOutcome(r, cwd, name, answer) ==
    Commit(r.s, [Blank EXCEPT !.cmd = "clean", !.cwd = cwd, !.name = name,
                              !.answer = answer, !.exit = ExitOf(r),
                              !.err = r.err, !.crash = r.crash,
                              !.gone = {m \in made : m.dir \notin r.s.dirs}], {})

CleanAt(rc, cwd, name, answer) ==
    IF rc.err # "" THEN Commit(Cur, Rejected("clean", cwd, rc.err), {})
    ELSE CleanOutcome(clean(Cur, rc.root, name, answer), cwd, name, answer)

CleanCmd(cwd, name, answer) == CleanAt(ensure_root_command(Cur, cwd), cwd, name, answer)

StatusEnvs == {"ok", "fail", "missing"}

\* git rev-parse --abbrev-ref HEAD through subprocess.run(check=False): a
\* non-zero exit leaves stdout empty, a missing executable raises
branch_status(gitEnv) ==
    IF gitEnv = "missing"
    THEN [err |-> "FileNotFoundError", crash |-> TRUE, out |-> <<>>]
    ELSE [err |-> "", crash |-> FALSE,
          out |-> <<IF gitEnv = "ok" THEN "HEAD" ELSE "unknown">>]

BranchStatusAt(rc, r, cwd, gitEnv) ==
    IF rc.err # "" THEN Commit(Cur, Rejected("branch status", cwd, rc.err), {})
    ELSE Commit(Cur, [Blank EXCEPT !.cmd = "branch status", !.cwd = cwd,
                                   !.git = gitEnv, !.exit = ExitOf(r),
                                   !.err = r.err, !.crash = r.crash, !.out = r.out,
                                   !.root = rc.root, !.ws = rc.workspace], {})

BranchStatusCmd(cwd, gitEnv) ==
    BranchStatusAt(ensure_workspace_command(Cur, cwd), branch_status(gitEnv), cwd, gitEnv)

BranchCleanAt(rc, cwd) ==
    IF rc.err # "" THEN Commit(Cur, Rejected("branch clean", cwd, rc.err), {})
    ELSE Commit(Cur, [Blank EXCEPT !.cmd = "branch clean", !.cwd = cwd,
                                   !.root = rc.root, !.ws = rc.workspace], {})

BranchCleanCmd(cwd) == BranchCleanAt(ensure_workspace_command(Cur, cwd), cwd)

\* a user makes <root>/.workspaces/<name> by hand and leaves a file in it
UserFile(s1, name) ==
    [s1 EXCEPT !.files = Put(s1.files, <<WORKSPACES_DIR>> \o name \o <<"notes">>, UserText)]

UserWrite(name) ==
    Commit(UserFile(MkdirP(Cur, <<WORKSPACES_DIR>> \o name), name),
           [Blank EXCEPT !.cmd = "user", !.name = name], {})

(***************************************************************************)
(* Specifications.                                                         *)
(***************************************************************************)
Absent == <<"ABSENT">>

BoundedSeq(S, n) == UNION {[1..k -> S] : k \in 0..n}

InitWith(ignores) ==
    /\ dirs = {Root, <<".git">>}
    /\ ignore0 \in ignores
    /\ files = IF ignore0 = Absent
               THEN (<<"Makefile">> :> <<"MK">>)
               ELSE (<<"Makefile">> :> <<"MK">>) @@ (<<".gitignore">> :> ignore0)
    /\ branches = {}
    /\ worktrees = [p \in {} |-> <<>>]
    /\ last = Blank
    /\ made = {}

\* the whole command set, with one workspace name.  A run of `new` with git
\* is an environment, the files the fetched branch tracks and a setup mode;
\* the setup modes "ok" and "missing" are exercised by directory-only runs.
GitRuns ==
    {<<"ok", t, m>> : t \in TrackedSets, m \in {"skip", "fail"}}
      \cup {<<e, {}, "skip">> : e \in GitEnvs \ {"ok"}}

Init == InitWith({Absent})

Next ==
    \/ \E cwd \in Cwds :
         \E name \in Args(RootAccepts(cwd), MainNames), force \in Args(RootAccepts(cwd), BOOLEAN),
            setup \in Args(RootAccepts(cwd), SetupModes) :
            NewDirOnly(cwd, name, force, setup)
    \/ \E cwd \in Cwds :
         \E name \in Args(RootAccepts(cwd), MainNames), force \in Args(RootAccepts(cwd), BOOLEAN),
            run \in Args(RootAccepts(cwd), GitRuns) :
            NewGit(cwd, name, force, run[1], run[2], run[3])
    \/ \E cwd \in Cwds : InitCmd(cwd)
    \/ \E cwd \in Cwds : ListCmd(cwd)
    \/ \E cwd \in Cwds :
         \E name \in Args(RootAccepts(cwd), MainNames), answer \in Args(RootAccepts(cwd), Answers) :
            CleanCmd(cwd, name, answer)
    \/ \E cwd \in Cwds :
         \E gitEnv \in Args(WorkspaceAccepts(cwd), StatusEnvs) : BranchStatusCmd(cwd, gitEnv)
    \/ \E cwd \in Cwds : BranchCleanCmd(cwd)
    \/ \E name \in MainNames : UserWrite(name)

Spec == Init /\ [][Next]_vars

\* directory-only mode at the root, with every workspace name
NextNames ==
    \/ \E name \in CreateNames, force \in BOOLEAN : NewDirOnly(Root, name, force, "skip")
    \/ ListCmd(Root)
    \/ \E name \in Names, answer \in Answers : CleanCmd(Root, name, answer)
    \/ \E name \in SimpleNames : UserWrite(name)

SpecNames == Init /\ [][NextNames]_vars

\* .gitignore only: every initial content, then `init` and `new` at the root
InitIgnore == InitWith({Absent} \cup BoundedSeq(IgnoreAlphabet, MaxIgnoreLen))

NextIgnore ==
    \/ InitCmd(Root)
    \/ \E force \in BOOLEAN : NewDirOnly(Root, <<"a">>, force, "skip")

SpecIgnore == InitIgnore /\ [][NextIgnore]_vars

(***************************************************************************)
(* Properties.                                                             *)
(***************************************************************************)
RootOnly == {"new", "init", "list", "clean"}
WorkspaceOnly == {"branch status", "branch clean"}
ContextErrors == WrongContextErrors \cup {"NotARepository"}

\* the command passed its context check
Accepted(l) == l.err \notin ContextErrors

\* the workspace directory an accepted root-only command works on
WsDir(l) == l.cwd \o <<WORKSPACES_DIR>> \o Collapse(l.name)

\* workspaces made at the repository root, the directory being
\* <root>/.workspaces/<name>
MadeAtRoot == {m \in made : m.root = Root /\ m.dir = <<WORKSPACES_DIR>> \o m.name}

TreeUnchanged == UNCHANGED <<dirs, files, branches, worktrees>>

HasEntryLine(c) ==
    \E i \in 1..Len(SplitLines(c)) : SplitLines(c)[i] = <<Entry>>

Count(seq, x) == Cardinality({i \in 1..Len(seq) : seq[i] = x})

\* C1: a root-only command started in a workspace that a successful `new`
\* created, or below it, exits 1 with a wrong-context error and changes
\* nothing.
C1_RootOnlyRejectedInWorkspace ==
    [][ (/\ last'.cmd \in RootOnly
         /\ \E m \in MadeAtRoot : IsPrefix(m.dir, last'.cwd))
        => (/\ last'.exit = 1
            /\ last'.err \in WrongContextErrors
            /\ TreeUnchanged) ]_vars

\* C2: a workspace-only command started at or below a workspace that a
\* successful `new` created resolves the repository root and that workspace;
\* started outside .workspaces/<name>/ it fails with a wrong-context error.
C2_WorkspaceOnlyResolves ==
    last.cmd \in WorkspaceOnly =>
        /\ \A m \in MadeAtRoot :
              IsPrefix(m.dir, last.cwd)
                 => (Accepted(last) /\ last.root = Root /\ <<last.ws>> = m.name)
        /\ ~(Len(last.cwd) >= 2 /\ last.cwd[1] = WORKSPACES_DIR)
              => (last.exit = 1 /\ last.err \in WrongContextErrors)

\* C3: after a `new` at the root that exits 0 the workspace directory exists
\* with config.yaml and README.md, and .gitignore has the line `.workspaces/`.
C3_NewLeavesScaffold ==
    (last.cmd = "new" /\ last.exit = 0 /\ last.cwd = Root) =>
        LET w == Canon(WsDir(last))
        IN  /\ w \in dirs
            /\ IsFile(files, Append(w, "config.yaml"))
            /\ IsFile(files, Append(w, "README.md"))
            /\ IsFile(files, <<".gitignore">>)
            /\ HasEntryLine(files[<<".gitignore">>])

\* the repository held no workspace but m when m was made
OnlyWorkspace(m) ==
    \A d \in dirs : (Len(d) >= 2 /\ d[1] = WORKSPACES_DIR)
                       => (IsPrefix(d, m.dir) \/ IsPrefix(m.dir, d))

\* C4: `list` prints the name of a workspace that `new` made in a fresh
\* repository exactly once, and always prints the workspace directories in
\* increasing order, one per line, or the no-workspaces message.
C4_ListShowsCreated ==
    (last.cmd = "list" /\ last.exit = 0) =>
        /\ \A m \in MadeAtRoot : OnlyWorkspace(m) => Count(last.out, m.name) = 1
        /\ LET kids == ChildDirs(Cur, <<WORKSPACES_DIR>>)
           IN  IF kids = {} THEN last.out = NoWorkspacesYet
               ELSE /\ Len(last.out) = Cardinality(kids)
                    /\ {last.out[i][1] : i \in 1..Len(last.out)} = kids
                    /\ \A i, j \in 1..Len(last.out) :
                          i < j => CodePoint(last.out[i][1]) < CodePoint(last.out[j][1])

IgnoreNow == IF IsFile(files, <<".gitignore">>) THEN files[<<".gitignore">>] ELSE Absent

\* the lines that are `.workspaces/` once blanks around them are dropped,
\* which is how ensure_gitignore looks for the entry
EntryLines(c) ==
    IF c = Absent THEN 0
    ELSE Cardinality({i \in 1..Len(SplitLines(c)) : Strip(SplitLines(c)[i]) = <<Entry>>})

\* C5: once `init` or `new` has run, .gitignore holds the entry line at most
\* once more than at the start and exactly once if it had none, the initial
\* content is a prefix of the file, and a file that was changed ends with a
\* newline.
C5_IgnoreEntryOnce ==
    last.cmd # "none" =>
        /\ IgnoreNow # Absent
        /\ EntryLines(IgnoreNow) <= EntryLines(ignore0) + 1
        /\ EntryLines(ignore0) = 0 => EntryLines(IgnoreNow) = 1
        /\ ignore0 # Absent => IsPrefix(ignore0, IgnoreNow)
        /\ IgnoreNow # ignore0 => EndsWithNewline(IgnoreNow)

\* `new` without --force, accepted at its root, with the workspace directory
\* already there
RefusedNew ==
    /\ last'.cmd = "new"
    /\ Accepted(last')
    /\ ~last'.force
    /\ PathExists(dirs, files, WsDir(last'))

\* whatever scaffold_config found in the workspace directory is still there
ScaffoldKept ==
    \A f \in DOMAIN last.pre : files[Append(Canon(WsDir(last)), f)] = last.pre[f]

\* C6, as stated: `new` without --force on an existing workspace exits 1 with
\* an `already exists` error and changes nothing, and scaffolding never
\* rewrites a config.yaml or README.md it finds.
C6_NoOverwriteAsStated ==
    [][ /\ RefusedNew => (/\ last'.exit = 1
                          /\ last'.err = "WorkspaceExists"
                          /\ TreeUnchanged)
        /\ ScaffoldKept' ]_vars

\* C6, amended: `new` without --force on an existing workspace exits 1 and
\* changes nothing; the error is `already exists`, or, when git is driven and
\* the fetch fails, the fetch error; scaffolding never rewrites a config.yaml
\* or README.md it finds.
C6_NoOverwrite ==
    [][ /\ RefusedNew => (/\ last'.exit = 1
                          /\ ~last'.crash
                          /\ \/ last'.err = "WorkspaceExists"
                             \/ ~last'.skipGit /\ last'.git \in {"fetch", "missing"}
                                               /\ last'.err = "GitPullFailed"
                          /\ TreeUnchanged)
        /\ ScaffoldKept' ]_vars

\* a refused `new`, on a workspace whose checked-out config.yaml is intact
C6_Witness ==
    /\ last.cmd = "new"
    /\ ~last.force
    /\ last.err = "WorkspaceExists"
    /\ last.cwd = Root
    /\ IsFile(files, Append(WsDir(last), "config.yaml"))
    /\ files[Append(WsDir(last), "config.yaml")] = TrackedText

\* the external tools did what was asked of them
Healthy(l) == l.git = "ok" /\ l.err # "MakeSetupFailed"

\* C7: `new --force` at the root on an existing workspace directory exits 0,
\* and afterwards the directory holds none of its old contents and has
\* config.yaml and README.md.
C7_ForceReplaces ==
    [][ (/\ last'.cmd = "new"
         /\ Accepted(last')
         /\ last'.cwd = Root
         /\ last'.force
         /\ Healthy(last')
         /\ PathExists(dirs, files, WsDir(last')))
        => LET w == Canon(WsDir(last'))
           IN  /\ last'.exit = 0
               /\ ~IsFile(files', Append(w, "notes"))
               /\ IsFile(files', Append(w, "config.yaml"))
               /\ IsFile(files', Append(w, "README.md")) ]_vars

\* outside <root>/.workspaces/<name>
Outside(name, p) == ~IsPrefix(<<WORKSPACES_DIR>> \o name, p)

\* C8: `clean <name>` at the root removes the workspace directory exactly
\* when it exists and the removal is confirmed; a missing workspace gives
\* exit 1 and no change, a declined prompt exit 0 and no change; whatever the
\* name, nothing outside <root>/.workspaces/<name> changes.
C8_CleanFrame ==
    [][ (last'.cmd = "clean" /\ Accepted(last') /\ last'.cwd = Root)
        => LET name == last'.name
               there == PathExists(dirs, files, WsDir(last'))
           IN  /\ ~there => (last'.exit = 1 /\ last'.err = "NotFound" /\ TreeUnchanged)
               /\ (there /\ last'.answer = "decline") => (last'.exit = 0 /\ TreeUnchanged)
               /\ (there /\ last'.answer # "decline")
                     => ~PathExists(dirs', files', WsDir(last'))
               /\ \A p \in dirs \cup dirs' : Outside(name, p) => (p \in dirs <=> p \in dirs')
               /\ \A p \in DOMAIN files \cup DOMAIN files' :
                     Outside(name, p) => /\ p \in DOMAIN files
                                         /\ p \in DOMAIN files'
                                         /\ files'[p] = files[p] ]_vars

SubprocessExceptions == {"FileNotFoundError", "CalledProcessError"}
SubprocessErrors == {"GitPullFailed", "CommandFailed", "CommandNotFound", "MakeSetupFailed"}

\* C9: no command ends with an uncaught exception of a subprocess; in `new`
\* a failed subprocess gives an `Error:` line and exit 1, a failed fetch the
\* fetch message; `branch status` reports the branch as unknown, with exit
\* 0, when git cannot tell it.
C9_SubprocessFailuresCaught ==
    /\ ~(last.crash /\ last.err \in SubprocessExceptions)
    /\ (last.cmd = "new" /\ last.err \in SubprocessErrors)
          => (last.exit = 1 /\ ~last.crash)
    /\ (last.cmd = "new" /\ Accepted(last) /\ ~last.skipGit
          /\ last.git \in {"fetch", "missing"}) => last.err = "GitPullFailed"
    /\ (last.cmd = "branch status" /\ Accepted(last) /\ last.git \in {"fail", "missing"})
          => (last.exit = 0 /\ last.out = <<"unknown">>)

\* C10: after a `new <name>` that drove git and a `clean <name>` that removed
\* the workspace, a `new <name>` without --force, with git and make doing
\* what is asked of them, exits 0.
C10_CleanReleasesName ==
    [][ (/\ last.cmd = "clean"
         /\ last.exit = 0
         /\ last'.cmd = "new"
         /\ Accepted(last')
         /\ last'.cwd = Root
         /\ ~last'.skipGit
         /\ ~last'.force
         /\ Healthy(last')
         /\ \E m \in last.gone :
               m.mode = "git" /\ m.root = Root /\ m.name = last'.name)
        => last'.exit = 0 ]_vars

====
